---- MODULE Spec2Model ----
(***************************************************************************)
(* State-machine model of the scene-state engine of rigatoni.core.Server:  *)
(* the identifier allocator (_get_id / SlotTracker), the registry (state,  *)
(* client_state), the reverse reference index (references), the deferred   *)
(* delete set (delete_queue) and the create / update / delete operations   *)
(* with the messages each of them broadcasts.                              *)
(*                                                                         *)
(* Two scene kinds are modelled: Entity (updatable, carries the direct     *)
(* reference `parent` and the identifier list `lights`) and Light (carries *)
(* no reference, validated by Light.one_of).                               *)
(*                                                                         *)
(* On top of the engine: the connection handler _handle_client (one        *)
(* coroutine per websocket), the introduction frame (_handle_intro and     *)
(* order_components), and method dispatch (_handle_invoke, _invoke_method) *)
(* for components of kind Method and the handlers bound under their names. *)
(***************************************************************************)
EXTENDS Integers, Sequences, FiniteSets, TLC

VARIABLES
    state,          \* Server.state: ID -> delegate (its field values)
    client_state,   \* Server.client_state: ID -> copy last shown to clients
    ids,            \* Server.ids: kind -> SlotTracker (next_slot, on_deck)
    references,     \* Server.references: ID -> set of IDs that refer to it
    delete_queue,   \* Server.delete_queue: set of IDs
    order,          \* the keys of Server.state in dict (insertion) order
    handles,        \* IDs of the delegates create_component has returned
    out,            \* messages broadcast by the last operation, in order
    last,           \* the last operation: its name, its target, its exception
    attrs,          \* attributes of the Server object under the modelled names
    clients,        \* Server.clients: set of websockets
    pc,             \* websocket -> position of its _handle_client coroutine
    wire,           \* websocket -> frames written to it by the last step, in order
    seen,           \* websocket -> what its client has seen: kind of the first
                    \* frame, number of intro frames, ids held after replay
    inv,            \* the last invocation: its message, the handler calls, the reply
    aliased,        \* IDs whose list field is one object in state and client_state
    threads         \* thread -> position in create_component and the id it holds

vars == <<state, client_state, ids, references, delete_queue, order, handles, out, last,
          attrs, clients, pc, wire, seen, inv, aliased, threads>>

---------------------------------------------------------------------------
(* Bounds of the model *)

MaxEntitySlot == 2
MaxLightSlot == 1
MaxListLen == 2
MaxMethodSlot == 1
MaxConn == 2
MaxConnEntity == 1
MaxOneOfSlot == 1

---------------------------------------------------------------------------
(* Identifiers and delegates *)

Kinds == {"Entity", "Light"}

MkID(k, s, g) == [kind |-> k, slot |-> s, gen |-> g]

None == [kind |-> "None", slot |-> 0, gen |-> 0]

\* the kinds of the connection model: the scene kinds and Method
AllKinds == Kinds \cup {"Method"}

\* the kinds, besides Light, whose validator wants one of several fields
OneOfKinds == {"Plot", "Buffer", "Image"}

SlotCap(k) ==
    IF k = "Light" THEN MaxLightSlot
    ELSE IF k = "Method" THEN MaxMethodSlot
    ELSE IF k \in OneOfKinds THEN MaxOneOfSlot
    ELSE MaxEntitySlot

\* identifiers server code may write into a reference field of a delegate
RefIDs(k) == {MkID(k, s, 0) : s \in 0 .. SlotCap(k) - 1}

IDLists(k) == UNION {[1 .. n -> RefIDs(k)] : n \in 0 .. MaxListLen}

\* Entity: parent: Optional[EntityID], lights: Optional[List[LightID]]
EntityAttrs == [kind : {"Entity"}, parent : RefIDs("Entity") \cup {None},
                lights : IDLists("Light")]

\* Light: which of point / spot / directional are set
LightAttrs == {[kind |-> "Light", point |-> FALSE, spot |-> FALSE, directional |-> FALSE],
               [kind |-> "Light", point |-> TRUE, spot |-> FALSE, directional |-> FALSE],
               [kind |-> "Light", point |-> TRUE, spot |-> TRUE, directional |-> FALSE]}

\* names of Methods: an ordinary one, and one that is also the name of an
\* attribute of the Server object (self.state)
MethodNames == {"test_method", "state"}

\* Method: name: str
MethodAttrs == [kind : {"Method"}, name : MethodNames]

\* values of an Optional[str] or Optional[bytes] field: None, the empty
\* string or bytes, a non-empty one
Optionals == {"None", "empty", "full"}

\* Plot: simple_plot: Optional[str], url_plot: Optional[str]
PlotAttrs == [kind : {"Plot"}, simple_plot : Optionals, url_plot : Optionals]

\* Buffer: inline_bytes: Optional[bytes], uri_bytes: Optional[str]
BufferAttrs == [kind : {"Buffer"}, inline_bytes : Optionals, uri_bytes : Optionals]

\* Image: buffer_source: Optional[BufferID], uri_source: Optional[str]
ImageAttrs == [kind : {"Image"}, buffer_source : RefIDs("Buffer") \cup {None},
               uri_source : Optionals]

Attrs(k) ==
    IF k = "Light" THEN LightAttrs
    ELSE IF k = "Method" THEN MethodAttrs
    ELSE IF k = "Plot" THEN PlotAttrs
    ELSE IF k = "Buffer" THEN BufferAttrs
    ELSE IF k = "Image" THEN ImageAttrs
    ELSE EntityAttrs

B2N(b) == IF b THEN 1 ELSE 0

\* Light.one_of: exactly one light type selected
one_of(a) ==
    LET num_selected == B2N(a.point) + B2N(a.spot) + B2N(a.directional)
    IN  num_selected = 1

\* bool(x) of an Optional[str] or Optional[bytes]: None and the empty value
\* are falsy
bool(x) == x = "full"

\* Plot.one_of: bool(model.simple_plot) != bool(model.url_plot)
Plot_one_of(a) == bool(a.simple_plot) # bool(a.url_plot)

\* Buffer.one_of: bool(model.inline_bytes) != bool(model.uri_bytes)
Buffer_one_of(a) == bool(a.inline_bytes) # bool(a.uri_bytes)

\* Image.one_of: bool(model.buffer_source) != bool(model.uri_source); a
\* BufferID is a tuple of two fields, truthy whatever they hold
Image_one_of(a) == (a.buffer_source # None) # bool(a.uri_source)

\* the delegate constructor comp_type(server=self, id=comp_id, **kwargs) succeeds
ValidAttrs(a) ==
    IF a.kind = "Light" THEN one_of(a)
    ELSE IF a.kind = "Plot" THEN Plot_one_of(a)
    ELSE IF a.kind = "Buffer" THEN Buffer_one_of(a)
    ELSE IF a.kind = "Image" THEN Image_one_of(a)
    ELSE TRUE

\* Server.message_map
message_map(action, k) ==
    IF k = "Entity"
    THEN (IF action = "create" THEN 4 ELSE IF action = "update" THEN 5 ELSE 6)
    ELSE IF k = "Light"
    THEN (IF action = "create" THEN 23 ELSE IF action = "update" THEN 24 ELSE 25)
    ELSE IF k = "Method"
    THEN (IF action = "create" THEN 0 ELSE IF action = "delete" THEN 1 ELSE -1)
    ELSE IF k = "Plot"
    THEN (IF action = "create" THEN 7 ELSE IF action = "update" THEN 8 ELSE 9)
    ELSE IF k = "Buffer"
    THEN (IF action = "create" THEN 10 ELSE IF action = "delete" THEN 11 ELSE -1)
    ELSE IF k = "Image"
    THEN (IF action = "create" THEN 17 ELSE IF action = "delete" THEN 18 ELSE -1)
    ELSE (IF action = "update" THEN 31 ELSE IF action = "reply" THEN 34 ELSE 35)

\* every kind has an ("update", kind) key
has_update_tag_all(k) == TRUE

\* the keys of Server.message_map: Method, Buffer and Image have no
\* ("update", kind) key, and self.message_map[key] raises KeyError for them
has_update_tag(k) == k \notin {"Method", "Buffer", "Image"}

\* a field that holds None (an unset Optional)
IsNone(a, f) ==
    IF a.kind = "Light" THEN ~a[f]
    ELSE IF f \in {"parent", "buffer_source"} THEN a[f] = None
    ELSE IF f \in {"lights", "position", "name"} THEN FALSE
    ELSE a[f] = "None"

\* base_delegate.__fields__ of the kind without "server" and "signals" (id and
\* name, which every kind has, are not among the fields of the model, Method's
\* name apart)
base_fields(k) ==
    IF k = "Entity" THEN {"parent", "lights"}
    ELSE IF k = "Light" THEN {"point", "spot", "directional"}
    ELSE IF k = "Method" THEN {"name"}
    ELSE IF k = "Plot" THEN {"simple_plot", "url_plot"}
    ELSE IF k = "Buffer" THEN {"inline_bytes", "uri_bytes"}
    ELSE {"buffer_source", "uri_source"}

\* _get_message_contents, action "create":
\* noodle_object.dict(exclude_none=True, include=include), include the fields
\* of the base kind; the names of the fields, besides id, that the contents carry
create_contents(a) == {f \in base_fields(a.kind) : ~IsNone(a, f)}

\* _get_message_contents, action "update":
\* noodle_object.dict(exclude_none=True, include=delta + {"id"}); the names of
\* the fields, besides id, that the contents carry
update_contents(a, delta) == {f \in delta : ~IsNone(a, f)}

\* _prepare_message: (tag, contents); contents are the id and, for an update,
\* the names of the fields carried besides it
Msg(action, id, fields) ==
    [tag |-> message_map(action, id.kind), action |-> action, id |-> id, fields |-> fields]

---------------------------------------------------------------------------
(* dict helpers *)

Get(d, k) == IF k \in DOMAIN d THEN d[k] ELSE {}

Put(d, k, v) == [x \in DOMAIN d \cup {k} |-> IF x = k THEN v ELSE d[x]]

Del(d, k) == [x \in DOMAIN d \ {k} |-> d[x]]

Range(seq) == {seq[i] : i \in 1 .. Len(seq)}

Reverse(seq) == [i \in 1 .. Len(seq) |-> seq[Len(seq) + 1 - i]]

---------------------------------------------------------------------------
(* Reference tracker *)

\* the identifiers _update_references meets, in the order of its scan of the
\* delegate's fields (the delegate's own `id` field is skipped)
Embedded(v) ==
    IF v.kind = "Entity"
    THEN (IF v.parent = None THEN <<>> ELSE <<v.parent>>) \o v.lights
    ELSE IF v.kind = "Image"
    THEN (IF v.buffer_source = None THEN <<>> ELSE <<v.buffer_source>>)
    ELSE <<>>

\* the identifiers in the fields named by fields
EmbeddedIn(v, fields) ==
    IF v.kind = "Entity"
    THEN (IF "parent" \in fields /\ v.parent # None THEN {v.parent} ELSE {})
            \cup (IF "lights" \in fields THEN {v.lights[i] : i \in 1 .. Len(v.lights)} ELSE {})
    ELSE {}

\* the identifiers that the contents of message m embed, besides the id of the
\* component itself: the contents are the dict of the delegate st[m.id], every
\* field for a create and the fields of the delta for an update
embeds(m, st) ==
    IF m.action = "create" THEN Range(Embedded(st[m.id]))
    ELSE IF m.action = "update" THEN EmbeddedIn(st[m.id], m.fields)
    ELSE {}

RECURSIVE scan(_, _, _, _)
\* one step per identifier met; removing an identifier that is no key of
\* references, or whose set lacks the parent, raises KeyError and the scan
\* stops with what it did so far
scan(refs, parent_id, seq, removing) ==
    IF seq = <<>> THEN [refs |-> refs, err |-> "none"]
    ELSE LET val == Head(seq) IN
         IF removing
         THEN IF val \in DOMAIN refs /\ parent_id \in refs[val]
              THEN scan([refs EXCEPT ![val] = @ \ {parent_id}], parent_id, Tail(seq), removing)
              ELSE [refs |-> refs, err |-> "KeyError"]
         ELSE scan(Put(refs, val, Get(refs, val) \cup {parent_id}), parent_id, Tail(seq), removing)

update_references(refs, parent_id, current, removing) ==
    scan(refs, parent_id, Embedded(current), removing)

---------------------------------------------------------------------------
(* Identifier allocator *)

\* _get_id that forgets `slot_info.next_slot += 1`
get_id_no_increment(tracker, k) ==
    IF tracker.on_deck = <<>>
    THEN [id |-> MkID(k, tracker.next_slot, 0), tracker |-> tracker]
    ELSE [id |-> Head(tracker.on_deck),
          tracker |-> [tracker EXCEPT !.on_deck = Tail(@)]]

\* _get_id that never looks at on_deck
get_id_fresh_only(tracker, k) ==
    [id |-> MkID(k, tracker.next_slot, 0),
     tracker |-> [tracker EXCEPT !.next_slot = @ + 1]]

\* _get_id: the identifier and the tracker after the call
get_id(tracker, k) ==
    IF tracker.on_deck = <<>>
    THEN [id |-> MkID(k, tracker.next_slot, 0),
          tracker |-> [tracker EXCEPT !.next_slot = @ + 1]]
    ELSE [id |-> Head(tracker.on_deck),
          tracker |-> [tracker EXCEPT !.on_deck = Tail(@)]]

\* what delete_component puts on deck for a freed identifier
freed_id(del_id) == del_id

---------------------------------------------------------------------------
(* Delete scheduler *)

\* a delete that does not look at the incoming set
no_references_unchecked(refs, id) == TRUE

\* `if not self.references.get(del_id)`
no_references(refs, id) == Get(refs, id) = {}

Machine == [state |-> state, client_state |-> client_state, ids |-> ids,
            references |-> references, delete_queue |-> delete_queue,
            out |-> <<>>, err |-> "none"]

RECURSIVE delete_component(_, _, _), drain(_, _)

\* all outcomes of delete_component(delegate) on machine state m; by_handle
\* tells whether a delegate or an ID was passed
delete_component(m, del_id, by_handle) ==
    IF ~by_handle /\ del_id \notin DOMAIN m.state
    THEN {[m EXCEPT !.err = "KeyError"]}
    ELSE IF no_references(m.references, del_id)
    THEN LET m1 == [m EXCEPT !.out = Append(@, Msg("delete", del_id, {}))] IN
         IF del_id \notin DOMAIN m1.state
         THEN {[m1 EXCEPT !.err = "KeyError"]}
         ELSE LET m2 == [m1 EXCEPT
                            !.state = Del(@, del_id),
                            !.client_state = Del(@, del_id),
                            !.ids[del_id.kind].on_deck = Append(@, freed_id(del_id)),
                            !.references = [x \in DOMAIN @ |-> @[x] \ {del_id}]]
              IN drain(m2, m2.delete_queue)
    ELSE {[m EXCEPT !.delete_queue = @ \cup {del_id}]}

\* `for comp_id in list(self.delete_queue)`: todo is what is left of the
\* snapshot; a set has no order, so every order is an outcome
drain(m, todo) ==
    IF todo = {} THEN {m}
    ELSE UNION {
        LET rest == todo \ {comp_id} IN
        IF ~no_references(m.references, comp_id) THEN drain(m, rest)
        ELSE IF comp_id \notin m.delete_queue THEN {[m EXCEPT !.err = "KeyError"]}
        ELSE UNION {IF r.err # "none" THEN {r} ELSE drain(r, rest) :
                      r \in delete_component([m EXCEPT !.delete_queue = @ \ {comp_id}],
                                             comp_id, FALSE)}
        : comp_id \in todo}

---------------------------------------------------------------------------
(* Frames and their delivery *)

Conns == 1 .. MaxConn

\* one websocket frame: how it was sent and the messages it holds
Frame(kind, msgs) == [kind |-> kind, msgs |-> msgs]

\* a websocket whose _handle_client coroutine is running (the library closes
\* the connection when the coroutine returns or raises)
Open(c) == pc[c] \in {"intro", "loop"}

\* a broadcast that sends only the first message of an operation
broadcast_first_only(cl, msgs) ==
    [c \in Conns |->
        IF c \in cl /\ Open(c) /\ msgs # <<>>
        THEN <<Frame("broadcast", <<msgs[1]>>)>>
        ELSE <<>>]

\* Server.broadcast for each message of msgs: websockets.broadcast writes a
\* frame to every open websocket of the set cl
broadcast(cl, msgs) ==
    [c \in Conns |->
        IF c \in cl /\ Open(c)
        THEN [i \in 1 .. Len(msgs) |-> Frame("broadcast", <<msgs[i]>>)]
        ELSE <<>>]

\* _handle_client sends after the handler did: the broadcasts were written
\* while _handle_intro / _handle_invoke ran, the direct frame follows them
client_frames_direct_first(bcast, direct) == direct \o bcast

client_frames(bcast, direct) == bcast \o direct

NoDirect == [c \in Conns |-> <<>>]

Direct(c, frame) == [x \in Conns |-> IF x = c THEN <<frame>> ELSE <<>>]

RECURSIVE replay(_, _)
\* a client applies the create and delete messages of a frame to the ids it holds
replay(held, msgs) ==
    IF msgs = <<>> THEN held
    ELSE LET m == Head(msgs) IN
         replay(IF m.action = "create" THEN held \cup {m.id}
                ELSE IF m.action = "delete" THEN held \ {m.id}
                ELSE held,
                Tail(msgs))

NothingSeen == [first |-> "none", intros |-> 0, replica |-> {}, known |-> {}]

RECURSIVE observe(_, _)
\* what a client has seen after the frames: replay starts at the intro frame;
\* known holds the ids created and not deleted in the whole stream
observe(o, frames) ==
    IF frames = <<>> THEN o
    ELSE LET f == Head(frames) IN
         observe([first |-> IF o.first = "none" THEN f.kind ELSE o.first,
                  intros |-> IF f.kind = "intro" /\ o.intros < 2 THEN o.intros + 1 ELSE o.intros,
                  replica |-> IF f.kind = "intro" THEN replay({}, f.msgs)
                              ELSE IF o.intros = 0 THEN o.replica
                              ELSE replay(o.replica, f.msgs),
                  known |-> replay(o.known, f.msgs)],
                 Tail(frames))

\* the frames of a step: the broadcasts of the operation to the websockets in
\* Server.clients, then what _send wrote
Deliver(direct) ==
    /\ wire' = [c \in Conns |-> client_frames(broadcast(clients, out')[c], direct[c])]
    /\ seen' = [c \in Conns |->
                  IF pc'[c] \in {"intro", "loop"} THEN observe(seen[c], wire'[c])
                  ELSE NothingSeen]                \* the client is gone

\* message[1] of a decoded frame: whether it is a dict, which keys of an
\* invoke message it has, and what args holds
Payload(is_dict, method, invoke_id, args) ==
    [is_dict |-> is_dict, method |-> method, invoke_id |-> invoke_id, args |-> args]

NoException == [type |-> "None", code |-> 0, message |-> "None", data |-> "None"]

NoInvoke == [conn |-> 0, arrived |-> 0, frame |-> "none", tag |-> 1,
             payload |-> Payload(FALSE, FALSE, FALSE, "missing"), method |-> None,
             invoke_id |-> "", context |-> "", args |-> <<>>, raised |-> NoException,
             calls |-> <<>>, reply |-> <<>>]

\* Server.state is a dict: the keys that stay keep their order, a new key
\* (an operation inserts at most one) goes last
DictOrder ==
    LET kept == SelectSeq(order, LAMBDA x : x \in DOMAIN state')
        new == DOMAIN state' \ DOMAIN state
    IN  order' = IF new = {} THEN kept ELSE Append(kept, CHOOSE x \in new : TRUE)

\* an engine operation called by the code that embeds the server, while
\* connections are served
Broadcast ==
    /\ DictOrder
    /\ UNCHANGED <<attrs, clients, pc, aliased, threads>>
    /\ Deliver(NoDirect)
    /\ inv' = NoInvoke

\* an engine operation of a server that serves no connection: nothing is
\* delivered; create, update and delete never read the order of state, and
\* the engine specifications leave it out, as they leave out which objects
\* state and client_state share and the threads of the embedding code
EngineOnly == UNCHANGED <<order, attrs, clients, pc, wire, seen, inv, aliased, threads>>

---------------------------------------------------------------------------
(* Operations *)

\* the attributes of a Server that no handler was registered on
ServerAttrs == [n \in MethodNames |-> IF n = "state" THEN "attribute" ELSE "unset"]

\* the threads that call the engine when the server runs on its own thread:
\* the thread of the event loop, and the thread of the embedding code
Threads == {"loop", "embedder"}

NoThread == [t \in Threads |-> [pc |-> "idle", kind |-> "None", id |-> None]]

NoConnection ==
    /\ threads = NoThread
    /\ clients = {}
    /\ pc = [c \in Conns |-> "none"]
    /\ wire = [c \in Conns |-> <<>>]
    /\ seen = [c \in Conns |-> NothingSeen]
    /\ inv = NoInvoke

Init ==
    /\ attrs = ServerAttrs
    /\ NoConnection
    /\ state = <<>>
    /\ client_state = <<>>
    /\ ids = [k \in AllKinds \cup OneOfKinds |-> [next_slot |-> 0, on_deck |-> <<>>]]
    /\ references = <<>>
    /\ delete_queue = {}
    /\ order = <<>>
    /\ handles = {}
    /\ aliased = {}
    /\ out = <<>>
    /\ last = [op |-> "init", id |-> None, err |-> "none", given |-> None]

\* Server._find_delta: `for field_name, value in edited` goes over every field
\* of the edited delegate, those an override added included; the names of the
\* fields whose values differ
find_delta(old, edited) == {f \in DOMAIN edited \ {"kind"} : edited[f] # old[f]}

\* Server.create_component(comp_type, **kwargs)
create_component(k, a) ==
    /\ ids[k].on_deck # <<>> \/ ids[k].next_slot < SlotCap(k)
    /\ LET g == get_id(ids[k], k) IN
       /\ ids' = [ids EXCEPT ![k] = g.tracker]
       /\ IF ~ValidAttrs(a)
          THEN /\ last' = [op |-> "create", id |-> g.id, err |-> "ValueError", given |-> a]
               /\ out' = <<>>
               /\ UNCHANGED <<state, client_state, references, delete_queue, handles>>
          ELSE /\ state' = Put(state, g.id, a)
               /\ client_state' = Put(client_state, g.id, a)
               /\ references' = update_references(references, g.id, a, FALSE).refs
               /\ out' = <<Msg("create", g.id, create_contents(a))>>
               /\ handles' = handles \cup {g.id}
               /\ last' = [op |-> "create", id |-> g.id, err |-> "none", given |-> a]
               /\ UNCHANGED delete_queue

\* server code edits the delegate it holds (assignments to a delegate are not
\* validated), then Server.update_component(current)
update_component(id, a) ==
    /\ id \in handles
    /\ a.kind = id.kind
    /\ IF id \notin DOMAIN client_state
       THEN /\ last' = [op |-> "update", id |-> id, err |-> "KeyError", given |-> None]
            /\ out' = <<>>
            /\ UNCHANGED <<state, client_state, ids, references, delete_queue, handles>>
       ELSE LET outdated == client_state[id]
                delta == find_delta(outdated, a)
                r1 == update_references(references, id, outdated, TRUE)
                r2 == update_references(r1.refs, id, a, FALSE)
            IN  /\ state' = [state EXCEPT ![id] = a]
                /\ IF r1.err # "none"
                   THEN /\ references' = r1.refs
                        /\ out' = <<>>
                        /\ last' = [op |-> "update", id |-> id, err |-> "KeyError", given |-> None]
                        /\ UNCHANGED client_state
                   ELSE /\ references' = r2.refs
                        /\ client_state' = [client_state EXCEPT ![id] = a]
                        /\ IF has_update_tag(id.kind)
                           THEN /\ out' = <<Msg("update", id, update_contents(a, delta))>>
                                /\ last' = [op |-> "update", id |-> id, err |-> "none", given |-> None]
                           ELSE /\ out' = <<>>
                                /\ last' = [op |-> "update", id |-> id, err |-> "ValueError", given |-> None]
                /\ UNCHANGED <<ids, delete_queue, handles>>

Delete(id, by_handle, opname) ==
    \E m \in delete_component(Machine, id, by_handle) :
        /\ state' = m.state
        /\ client_state' = m.client_state
        /\ ids' = m.ids
        /\ references' = m.references
        /\ delete_queue' = m.delete_queue
        /\ out' = m.out
        /\ last' = [op |-> opname, id |-> id, err |-> m.err, given |-> None]
        /\ UNCHANGED handles

\* Server.delete_component(ID)
DeleteByID(id) == Delete(id, FALSE, "delete_id")

\* Server.delete_component(delegate), with a delegate create_component returned
DeleteByHandle(id) == id \in handles /\ Delete(id, TRUE, "delete_handle")

AllIDs == UNION {RefIDs(k) : k \in Kinds}

Next ==
    \/ \E k \in Kinds : \E a \in Attrs(k) : create_component(k, a) /\ EngineOnly
    \/ \E id \in AllIDs : \E a \in Attrs(id.kind) :
          ValidAttrs(a) /\ update_component(id, a) /\ EngineOnly
    \/ \E id \in AllIDs : DeleteByID(id) /\ EngineOnly
    \/ \E id \in AllIDs : DeleteByHandle(id) /\ EngineOnly

Spec == Init /\ [][Next]_vars

\* the engine used as the specification intends: server code writes into a
\* delegate only identifiers of components that are live at that moment
RefsLive(a) == \A i \in 1 .. Len(Embedded(a)) : Embedded(a)[i] \in DOMAIN state

CreateValid(k, a) == RefsLive(a) /\ create_component(k, a)

UpdateValid(id, a) == RefsLive(a) /\ ValidAttrs(a) /\ update_component(id, a)

NextValid ==
    \/ \E k \in Kinds : \E a \in Attrs(k) : CreateValid(k, a) /\ EngineOnly
    \/ \E id \in AllIDs : \E a \in Attrs(id.kind) : UpdateValid(id, a) /\ EngineOnly
    \/ \E id \in AllIDs : DeleteByID(id) /\ EngineOnly
    \/ \E id \in AllIDs : DeleteByHandle(id) /\ EngineOnly

SpecValid == Init /\ [][NextValid]_vars

---------------------------------------------------------------------------
(* Introduction frame *)

RECURSIVE top_sort_recurse(_, _, _), visit_refs(_, _, _), sort_from(_, _, _)

\* top_sort_recurse(id, refs, components, visited, stack): all outcomes from
\* r = [keys, visited, stack, err]
top_sort_recurse(id, refs, r) ==
    LET r1 == [r EXCEPT !.visited = @ \cup {id}]
        after == IF id \in DOMAIN refs THEN visit_refs(refs[id], refs, r1) ELSE {r1}
    IN  {IF x.err # "none" THEN x ELSE [x EXCEPT !.stack = Append(@, id)] : x \in after}

\* `for ref in refs[id]: if not visited[ref]: top_sort_recurse(ref, ...)`;
\* a set has no order, so every order is an outcome; visited[ref] raises
\* KeyError for a ref that is no key of components
visit_refs(todo, refs, r) ==
    IF todo = {} THEN {r}
    ELSE UNION {
        LET rs == IF ref \notin r.keys THEN {[r EXCEPT !.err = "KeyError"]}
                  ELSE IF ref \in r.visited THEN {r}
                  ELSE top_sort_recurse(ref, refs, r)
        IN  UNION {IF x.err # "none" THEN {x} ELSE visit_refs(todo \ {ref}, refs, x) : x \in rs}
        : ref \in todo}

\* `for id in components: if not visited[id]: top_sort_recurse(id, ...)`
sort_from(todo, refs, r) ==
    IF todo = <<>> THEN {r}
    ELSE LET rs == IF Head(todo) \in r.visited THEN {r}
                   ELSE top_sort_recurse(Head(todo), refs, r)
         IN  UNION {IF x.err # "none" THEN {x} ELSE sort_from(Tail(todo), refs, x) : x \in rs}

\* order_components(components, refs): the reversed stack
order_components(ord, refs) ==
    {[stack |-> Reverse(x.stack), err |-> x.err] :
        x \in sort_from(ord, refs, [keys |-> Range(ord), visited |-> {},
                                    stack |-> <<>>, err |-> "none"])}

\* Server.get_ids_by_type
get_ids_by_type(k) == SelectSeq(order, LAMBDA x : x.kind = k)

\* _prepare_message("update", None): the Document update
DocumentUpdate ==
    [tag |-> message_map("update", "None"), action |-> "document", id |-> None,
     fields |-> {"methods_list", "signals_list"},
     methods_list |-> get_ids_by_type("Method"),
     signals_list |-> get_ids_by_type("Signal")]

\* _prepare_message("initialized")
Initialized ==
    [tag |-> message_map("initialized", "None"), action |-> "initialized", id |-> None,
     fields |-> {}]

\* _handle_intro that leaves out the components waiting in delete_queue
handle_intro_skip_queued(sorted) ==
    LET kept == SelectSeq(sorted, LAMBDA x : x \notin delete_queue)
    IN  [i \in 1 .. Len(kept) |-> Msg("create", kept[i], create_contents(state[kept[i]]))]
            \o <<DocumentUpdate, Initialized>>

\* _handle_intro: the messages of the frame for the ordered components
handle_intro(sorted) ==
    [i \in 1 .. Len(sorted) |-> Msg("create", sorted[i], create_contents(state[sorted[i]]))]
        \o <<DocumentUpdate, Initialized>>

\* the frames _handle_intro can build in the current state, or its exception
IntroFrames ==
    {[err |-> x.err, msgs |-> IF x.err = "none" THEN handle_intro(x.stack) ELSE <<>>] :
        x \in order_components(order, references)}

---------------------------------------------------------------------------
(* Connections and method dispatch *)

M0 == MkID("Method", 0, 0)

PointLight == [kind |-> "Light", point |-> TRUE, spot |-> FALSE, directional |-> FALSE]

\* Server(port, [StartingComponent(Method, {"name": "test_method"}, test_method)]):
\* __init__ creates the Method and binds its handler with
\* setattr(self, comp.name, InjectedMethod(self, comp_method))
InitConn ==
    /\ state = Put(<<>>, M0, [kind |-> "Method", name |-> "test_method"])
    /\ client_state = state
    /\ ids = [k \in AllKinds \cup OneOfKinds |-> [next_slot |-> IF k = "Method" THEN 1 ELSE 0,
                                   on_deck |-> <<>>]]
    /\ references = <<>>
    /\ delete_queue = {}
    /\ order = <<M0>>
    /\ handles = {M0}
    /\ aliased = {M0}
    /\ out = <<>>
    /\ last = [op |-> "init", id |-> None, err |-> "none", given |-> None]
    /\ attrs = [ServerAttrs EXCEPT !["test_method"] = "handler"]
    /\ NoConnection

\* a step of _handle_client that calls no engine operation
Idle(opname) ==
    /\ UNCHANGED <<state, client_state, ids, references, delete_queue, handles>>
    /\ out' = <<>>
    /\ last' = [op |-> opname, id |-> None, err |-> "none", given |-> None]

\* _handle_client up to `await websocket.recv()`: self.clients.add(websocket)
Connect(c) ==
    /\ pc[c] = "none"
    /\ \A x \in 1 .. c - 1 : pc[x] # "none"      \* websockets named in order of arrival
    /\ clients' = clients \cup {c}
    /\ pc' = [pc EXCEPT ![c] = "intro"]
    /\ Idle("connect")
    /\ UNCHANGED <<order, aliased, threads>>
    /\ Deliver(NoDirect)
    /\ inv' = NoInvoke
    /\ UNCHANGED attrs

\* the client's intro message arrives: _handle_intro, then _send of the frame
RecvIntro(c) ==
    /\ pc[c] = "intro"
    /\ Idle("intro")
    /\ UNCHANGED <<order, aliased, threads>>
    /\ \E f \in IntroFrames :
          IF f.err # "none"
          THEN /\ pc' = [pc EXCEPT ![c] = "raised"]
               /\ Deliver(NoDirect)
          ELSE /\ pc' = [pc EXCEPT ![c] = "loop"]
               /\ Deliver(Direct(c, Frame("intro", f.msgs)))
    /\ inv' = NoInvoke
    /\ UNCHANGED <<attrs, clients>>

\* the handshake fails: recv raises because the connection closed, loads
\* raises, or intro_msg[1]["client_name"] raises; the coroutine ends there
HandshakeFail(c) ==
    /\ pc[c] = "intro"
    /\ pc' = [pc EXCEPT ![c] = "raised"]
    /\ Idle("handshake_fail")
    /\ UNCHANGED <<order, aliased, threads>>
    /\ Deliver(NoDirect)
    /\ inv' = NoInvoke
    /\ UNCHANGED <<attrs, clients>>

\* the transport fails in the steady state: the iterator raises
\* ConnectionClosedError and the coroutine ends there
SteadyFail(c) ==
    /\ pc[c] = "loop"
    /\ pc' = [pc EXCEPT ![c] = "raised"]
    /\ Idle("steady_fail")
    /\ UNCHANGED <<order, aliased, threads>>
    /\ Deliver(NoDirect)
    /\ inv' = NoInvoke
    /\ UNCHANGED <<attrs, clients>>

\* the client closes cleanly: `async for` ends, self.clients.remove(websocket)
CloseOK(c) ==
    /\ pc[c] = "loop"
    /\ pc' = [pc EXCEPT ![c] = "done"]
    /\ clients' = clients \ {c}
    /\ Idle("close")
    /\ UNCHANGED <<order, aliased, threads>>
    /\ Deliver(NoDirect)
    /\ inv' = NoInvoke
    /\ UNCHANGED attrs

\* frames of the steady state that _handle_client cannot index: loads(message)
\* raises, or the decoded value has no element [1]
BadFrames == {"undecodable", "not_indexable"}

\* loads(message) or message[1] raises outside any try: the coroutine ends
\* there, nothing is sent and the websocket stays in Server.clients
BadFrame(c, shape) ==
    /\ pc[c] = "loop"
    /\ pc' = [pc EXCEPT ![c] = "raised"]
    /\ Idle("bad_frame")
    /\ UNCHANGED <<order, aliased, threads>>
    /\ Deliver(NoDirect)
    /\ inv' = [NoInvoke EXCEPT !.arrived = c, !.frame = shape]
    /\ UNCHANGED <<attrs, clients>>

\* inputs of an invocation
MethodIDs == RefIDs("Method") \cup {MkID("Method", 0, 1)}

InvokeIDs == {"0"}

Contexts == {"none", "entity"}

\* message[0] of a decoded frame: 1 is the tag of an invoke message, 0 the tag
\* of a client introduction
Tags == {1, 0}

\* message[1] with every key of an invoke message, args a list
WellFormed == Payload(TRUE, TRUE, TRUE, "list")

\* payloads that are no dict, lack a key, or carry args that are no list (an
\* integer, the empty string)
Malformed ==
    {Payload(FALSE, FALSE, FALSE, "missing"), Payload(TRUE, FALSE, TRUE, "list"),
     Payload(TRUE, TRUE, FALSE, "list"), Payload(TRUE, TRUE, TRUE, "missing"),
     Payload(TRUE, TRUE, TRUE, "int"), Payload(TRUE, TRUE, TRUE, "str")}

\* MethodException(code, message, data)
MethodException(code, message, data) ==
    [type |-> "MethodException", code |-> code, message |-> message, data |-> data]

\* an exception of another type, with the text it carries
OtherException(type, text) == [type |-> type, code |-> 0, message |-> text, data |-> "None"]

\* what the handler is asked to raise
Raisable ==
    {MethodException(-32602, "Invalid Parameters", "x out of range"),
     MethodException(7, "None", "None"),
     OtherException("KeyError", "x"), OtherException("RuntimeError", "secret")}

\* one argument of the handler: what it is to do
Arg(do, e) == [do |-> do, exc |-> e]

ArgLists == {<<>>, <<Arg("light", NoException)>>}

RaiseArgLists == {<<Arg("raise", e)>> : e \in Raisable}

\* _invoke_method, "Parse message": message["method"], message["invoke_id"]
\* and message["args"] are read inside the try; nothing validates what
\* args holds
parse(p) == p.is_dict /\ p.method /\ p.invoke_id /\ p.args # "missing"

\* _invoke_method, "Locate method": self.state[method_id].name, then
\* getattr(self, method_name)
locate(method_id) ==
    IF method_id \notin DOMAIN state THEN "KeyError" ELSE attrs[state[method_id].name]

\* InjectedMethod.__call__ that does not insert the server
InjectedMethod_no_server(name, context, args) ==
    [handler |-> name, server |-> FALSE, context |-> context, args |-> args]

\* InjectedMethod.__call__(context, *args): self.method(self.server, context, *args)
InjectedMethod(name, context, args) ==
    [handler |-> name, server |-> TRUE, context |-> context, args |-> args]

NotInvoked == [raised |-> NoException, id_set |-> FALSE, calls |-> <<>>, creates |-> FALSE,
               result |-> "None"]

\* the handler test_method(server, context, *args): with no argument it
\* returns a string, asked for a light it creates one and returns the string,
\* asked to raise it raises
test_method(args) ==
    IF args # <<>> /\ args[1].do = "raise"
    THEN [NotInvoked EXCEPT !.raised = args[1].exc]
    ELSE [NotInvoked EXCEPT !.creates = (args # <<>>), !.result = "Method on server called!"]

\* _invoke_method(message, reply): what it raises, whether reply.invoke_id
\* was assigned, the handler calls, and reply.result.  method(context, *args)
\* unpacks args: an integer raises TypeError, the empty string gives no
\* argument; calling a Server attribute that is no handler raises TypeError
invoke_method(p, method_id, context, args) ==
    IF ~parse(p)
    THEN [NotInvoked EXCEPT !.raised = MethodException(-32700, "Parse Error", "None")]
    ELSE IF locate(method_id) \in {"KeyError", "unset"}
    THEN [NotInvoked EXCEPT !.raised = MethodException(-32601, "Method Not Found", "None"),
                            !.id_set = TRUE]
    ELSE IF locate(method_id) = "attribute" \/ p.args = "int"
    THEN [NotInvoked EXCEPT !.raised = OtherException("TypeError", "not callable or iterable"),
                            !.id_set = TRUE]
    ELSE LET given == IF p.args = "str" THEN <<>> ELSE args
             r == test_method(given)
         IN  [r EXCEPT !.id_set = TRUE,
                       !.calls = <<InjectedMethod(state[method_id].name, context, given)>>]

\* _handle_invoke, except: every exception becomes Internal Error
handle_exception_always_internal(e) == MethodException(-32603, "Internal Error", "None")

\* _handle_invoke, except: the text of the exception is passed on as data
handle_exception_leak(e) ==
    IF e.type = "MethodException" THEN e
    ELSE MethodException(-32603, "Internal Error", e.message)

\* _handle_invoke, except: a MethodException is kept, anything else becomes
\* MethodException(code=-32603, message="Internal Error")
handle_exception(e) ==
    IF e.type = "MethodException" THEN e
    ELSE MethodException(-32603, "Internal Error", "None")

\* _prepare_message("reply", reply_obj): result is left out when None, and
\* method_exception is {code, message, data} of the exception e; NoException
\* (code 0) stands for method_exception None
Reply(invoke_id, result, e) ==
    [tag |-> message_map("reply", "None"), action |-> "reply", id |-> None,
     fields |-> {"invoke_id"} \cup (IF result = "None" THEN {} ELSE {"result"})
                              \cup (IF e = NoException THEN {} ELSE {"method_exception"}),
     invoke_id |-> invoke_id, result |-> result,
     code |-> e.code, message |-> e.message, data |-> e.data]

\* the reply frame goes to the invoking websocket with _send
Respond(c, v, r, reply) ==
    /\ DictOrder
    /\ inv' = [conn |-> c, arrived |-> c, frame |-> "indexable", tag |-> v.tag,
               payload |-> v.payload, method |-> v.method, invoke_id |-> v.invoke_id,
               context |-> v.context, args |-> v.args, raised |-> r.raised,
               calls |-> r.calls, reply |-> <<reply>>]
    /\ UNCHANGED <<attrs, clients, pc, aliased, threads>>
    /\ Deliver(Direct(c, Frame("reply", <<reply>>)))

\* a frame [tag, payload] arrives on c: _handle_invoke(message[1]) whatever
\* message[0] is, then _send(websocket, reply).  Reply(invoke_id="-1") keeps
\* its placeholder unless _invoke_method assigned the invoke_id.
Invoke(c, v) ==
    /\ pc[c] = "loop"
    /\ LET r == invoke_method(v.payload, v.method, v.context, v.args)
           e == IF r.raised = NoException THEN NoException ELSE handle_exception(r.raised)
       IN  /\ IF r.creates THEN create_component("Light", PointLight) ELSE Idle("invoke")
           /\ Respond(c, v, r, Reply(IF r.id_set THEN v.invoke_id ELSE "-1", r.result, e))

\* well-formed invoke frames whose handler returns
PlainInvocations ==
    [tag : {1}, payload : {WellFormed}, method : MethodIDs, invoke_id : InvokeIDs,
     context : Contexts, args : ArgLists]

\* the frames [tag, payload] clients send in the steady state
Invocations ==
    PlainInvocations
    \cup [tag : {1}, payload : {WellFormed}, method : {M0}, invoke_id : InvokeIDs,
          context : {"none"}, args : RaiseArgLists]
    \cup [tag : {1}, payload : Malformed, method : {M0}, invoke_id : InvokeIDs,
          context : {"none"}, args : {<<>>}]
    \cup [tag : Tags \ {1}, payload : {WellFormed, Payload(TRUE, FALSE, TRUE, "list")},
          method : {M0}, invoke_id : InvokeIDs, context : {"none"}, args : {<<>>}]

\* what the embedding code creates and writes while clients are connected
ConnAttrs(k) ==
    IF k = "Light" THEN {PointLight}
    ELSE IF k = "Method" THEN MethodAttrs
    ELSE {a \in EntityAttrs : a.parent = None}

ConnIDs == AllIDs \cup RefIDs("Method")

NextConn ==
    \/ \E c \in Conns : Connect(c)
    \/ \E c \in Conns : RecvIntro(c)
    \/ \E c \in Conns : HandshakeFail(c)
    \/ \E c \in Conns : SteadyFail(c)
    \/ \E c \in Conns : CloseOK(c)
    \/ \E c \in Conns : \E v \in PlainInvocations : Invoke(c, v)
    \/ \E k \in AllKinds : \E a \in ConnAttrs(k) :
          /\ k = "Entity" => (ids[k].on_deck # <<>> \/ ids[k].next_slot < MaxConnEntity)
          /\ create_component(k, a)
          /\ Broadcast
    \/ \E id \in RefIDs("Entity") : \E a \in ConnAttrs("Entity") :
          update_component(id, a) /\ Broadcast
    \/ \E id \in ConnIDs : DeleteByID(id) /\ Broadcast
    \/ \E id \in ConnIDs : DeleteByHandle(id) /\ Broadcast

SpecConn == InitConn /\ [][NextConn]_vars

\* connections that send every kind of frame, to a server whose embedding
\* code creates and deletes Methods and Lights
NextDispatch ==
    \/ \E c \in Conns : Connect(c)
    \/ \E c \in Conns : RecvIntro(c)
    \/ \E c \in Conns : CloseOK(c)
    \/ \E c \in Conns : \E shape \in BadFrames : BadFrame(c, shape)
    \/ \E c \in Conns : \E v \in Invocations : Invoke(c, v)
    \/ \E k \in {"Method", "Light"} : \E a \in ConnAttrs(k) :
          create_component(k, a) /\ Broadcast
    \/ \E id \in RefIDs("Method") \cup RefIDs("Light") : DeleteByID(id) /\ Broadcast

SpecDispatch == InitConn /\ [][NextDispatch]_vars

\* what the embedding code creates and writes in the update specification
UpdateAttrs(k) ==
    IF k = "Entity" THEN {a \in EntityAttrs : a.parent = None} ELSE Attrs(k)

UpdateIDs == AllIDs \cup RefIDs("Method")

\* a server that serves no connection, whose embedding code creates, edits,
\* updates and deletes Entities, Lights and Methods; an edit may leave a
\* delegate with values its validator rejects
NextUpdate ==
    \/ \E k \in AllKinds : \E a \in UpdateAttrs(k) :
          /\ k = "Entity" => (ids[k].on_deck # <<>> \/ ids[k].next_slot < MaxConnEntity)
          /\ create_component(k, a)
          /\ EngineOnly
    \/ \E id \in UpdateIDs : \E a \in UpdateAttrs(id.kind) :
          update_component(id, a) /\ EngineOnly
    \/ \E id \in UpdateIDs : DeleteByID(id) /\ EngineOnly

SpecUpdate == Init /\ [][NextUpdate]_vars

OneOfIDs == UNION {RefIDs(k) : k \in OneOfKinds \cup {"Light"}}

\* a server that serves no connection, whose embedding code creates and
\* deletes Plots, Buffers, Images and Lights with every combination of their
\* alternative fields
NextOneOf ==
    \/ \E k \in OneOfKinds \cup {"Light"} : \E a \in Attrs(k) :
          create_component(k, a) /\ EngineOnly
    \/ \E id \in OneOfIDs : DeleteByID(id) /\ EngineOnly

SpecOneOf == Init /\ [][NextOneOf]_vars

\* values of the field an override adds
Positions == {0, 1}

\* Server(delegate_map={Entity: EntityDelegate}): create_component takes
\* custom_delegates.get(comp_type, comp_type), so that every Entity is an
\* instance of the override, which adds the field position to those of Entity
EntityDelegateAttrs ==
    [kind : {"Entity"}, parent : {None}, lights : IDLists("Light"), position : Positions]

OverrideAttrs(k) == IF k = "Entity" THEN EntityDelegateAttrs ELSE {PointLight}

\* a server that serves no connection and has an override registered for
\* Entity; the embedding code creates, edits, updates and deletes Entities and
\* Lights
NextOverride ==
    \/ \E k \in Kinds : \E a \in OverrideAttrs(k) :
          /\ k = "Entity" => (ids[k].on_deck # <<>> \/ ids[k].next_slot < MaxConnEntity)
          /\ create_component(k, a)
          /\ EngineOnly
    \/ \E id \in RefIDs("Entity") : \E a \in EntityDelegateAttrs :
          update_component(id, a) /\ EngineOnly
    \/ \E id \in AllIDs : DeleteByID(id) /\ EngineOnly

SpecOverride == Init /\ [][NextOverride]_vars

\* what the embedding code creates and writes in the editing specification
EditAttrs(k) ==
    IF k = "Entity" THEN {a \in EntityAttrs : a.parent = None} ELSE {PointLight}

\* create_component: client_state[comp_id] = new_delegate.copy(), a copy that
\* is not deep: the copy and the delegate hold the same list object
create_copy ==
    aliased' = IF last'.err = "none" THEN aliased \cup {last'.id} ELSE aliased

\* update_component: client_state[current.id] = current.copy(), likewise, on
\* every path that reaches the assignment
update_copy ==
    aliased' = IF last'.err \in {"none", "ValueError"} THEN aliased \cup {last'.id}
               ELSE aliased

\* server code assigns a new list to delegate.lights: the delegate in state
\* changes, nothing else runs, and the snapshot keeps the list it had
set_lights(id, l) ==
    /\ id \in handles \cap DOMAIN state
    /\ id.kind = "Entity"
    /\ l # state[id].lights
    /\ state' = [state EXCEPT ![id].lights = l]
    /\ aliased' = aliased \ {id}
    /\ out' = <<>>
    /\ last' = [op |-> "edit", id |-> id, err |-> "none", given |-> None]
    /\ UNCHANGED <<client_state, ids, references, delete_queue, handles>>

\* server code calls delegate.lights.append(x): the list object changes, in
\* the delegate and in every other delegate that holds the same object
lights_append(id, x) ==
    /\ id \in handles \cap DOMAIN state
    /\ id.kind = "Entity"
    /\ Len(state[id].lights) < MaxListLen
    /\ state' = [state EXCEPT ![id].lights = Append(@, x)]
    /\ client_state' = IF id \in aliased /\ id \in DOMAIN client_state
                          THEN [client_state EXCEPT ![id].lights = Append(@, x)]
                          ELSE client_state
    /\ out' = <<>>
    /\ last' = [op |-> "edit", id |-> id, err |-> "none", given |-> None]
    /\ UNCHANGED <<ids, references, delete_queue, handles, aliased>>

\* Server.delete_component(delegate, recursive=True): the body never reads
\* the parameter recursive
DeleteRecursive(id) == Delete(id, FALSE, "delete_recursive")

EditFrame == UNCHANGED <<order, attrs, clients, pc, wire, seen, inv, threads>>

\* a server that serves no connection, whose embedding code creates Entities
\* and Lights, edits the delegates it holds by assignment and in place, calls
\* update_component with them and deletes them
NextEdit ==
    \/ \E k \in Kinds : \E a \in EditAttrs(k) :
          create_component(k, a) /\ create_copy /\ EditFrame
    \/ \E id \in RefIDs("Entity") : \E l \in IDLists("Light") :
          set_lights(id, l) /\ EditFrame
    \/ \E id \in RefIDs("Entity") : \E x \in RefIDs("Light") :
          lights_append(id, x) /\ EditFrame
    \/ \E id \in AllIDs :
          /\ id \in DOMAIN state
          /\ update_component(id, state[id])
          /\ update_copy
          /\ EditFrame
    \/ \E id \in AllIDs :
          DeleteByID(id) /\ aliased' = aliased \cap DOMAIN state' /\ EditFrame
    \/ \E id \in AllIDs :
          DeleteRecursive(id) /\ aliased' = aliased \cap DOMAIN state' /\ EditFrame

SpecEdit == Init /\ [][NextEdit]_vars

\* with `with Server(...) as server:` the event loop runs on a thread of its
\* own and the embedding code calls the engine from its thread; no lock and
\* no channel stands between a thread and the engine, so that the threads
\* interleave between the statements of _get_id and create_component
ThreadFrame == UNCHANGED <<order, attrs, clients, pc, wire, seen, inv, aliased>>

\* what a thread creates
ThreadAttrs(k) ==
    IF k = "Entity" THEN [kind |-> "Entity", parent |-> None, lights |-> <<>>]
    ELSE PointLight

\* _get_id up to `id = id_type(slot=slot_info.next_slot, gen=0)`, or the whole
\* of it when an identifier is on deck (Queue.get is atomic)
thread_get_id(t, k) ==
    /\ threads[t].pc = "idle"
    /\ ids[k].on_deck # <<>> \/ ids[k].next_slot < SlotCap(k)
    /\ IF ids[k].on_deck = <<>>
       THEN /\ threads' = [threads EXCEPT ![t] =
                   [pc |-> "read", kind |-> k, id |-> MkID(k, ids[k].next_slot, 0)]]
            /\ UNCHANGED ids
       ELSE /\ threads' = [threads EXCEPT ![t] =
                   [pc |-> "got_id", kind |-> k, id |-> Head(ids[k].on_deck)]]
            /\ ids' = [ids EXCEPT ![k].on_deck = Tail(@)]
    /\ UNCHANGED <<state, client_state, references, delete_queue, handles, out, last>>

\* _get_id: `slot_info.next_slot += 1; return id`
thread_increment(t) ==
    /\ threads[t].pc = "read"
    /\ ids' = [ids EXCEPT ![threads[t].kind].next_slot = @ + 1]
    /\ threads' = [threads EXCEPT ![t].pc = "got_id"]
    /\ UNCHANGED <<state, client_state, references, delete_queue, handles, out, last>>

\* create_component after _get_id returned: the delegate is built, stored in
\* state and client_state, indexed, and the create message is broadcast
thread_insert(t) ==
    /\ threads[t].pc = "got_id"
    /\ LET id == threads[t].id
           a == ThreadAttrs(threads[t].kind)
       IN  /\ state' = Put(state, id, a)
           /\ client_state' = Put(client_state, id, a)
           /\ references' = update_references(references, id, a, FALSE).refs
           /\ out' = <<Msg("create", id, create_contents(a))>>
           /\ handles' = handles \cup {id}
           /\ last' = [op |-> "create", id |-> id, err |-> "none", given |-> a]
    /\ threads' = [threads EXCEPT ![t] = NoThread[t]]
    /\ UNCHANGED <<ids, delete_queue>>

\* delete_component(ID) called by a thread that is in no other call
thread_delete(t, id) ==
    /\ threads[t].pc = "idle"
    /\ DeleteByID(id)
    /\ UNCHANGED threads

\* a server run as a context manager: handlers on the thread of the event
\* loop and the embedding code on its own thread create and delete Entities
\* and Lights
NextThreads ==
    \/ \E t \in Threads : \E k \in Kinds : thread_get_id(t, k) /\ ThreadFrame
    \/ \E t \in Threads : thread_increment(t) /\ ThreadFrame
    \/ \E t \in Threads : thread_insert(t) /\ ThreadFrame
    \/ \E t \in Threads : \E id \in AllIDs : thread_delete(t, id) /\ ThreadFrame

SpecThreads == Init /\ [][NextThreads]_vars

---------------------------------------------------------------------------
(* Helpers of the properties *)

IsDelete(l) == l.op \in {"delete_id", "delete_handle"}

\* the identifiers of the delete messages among o[1..n]
DeletedUpTo(o, n) == {o[j].id : j \in {i \in 1 .. n : o[i].action = "delete"}}

Removed == DOMAIN state \ DOMAIN state'

\* live entries of delete_queue whose incoming set is empty
Eligible(st, refs, dq) == {q \in dq : q \in DOMAIN st /\ Get(refs, q) = {}}

---------------------------------------------------------------------------
(* C1 *)

\* C1 (generation monotonicity): every identifier a successful create returns
\* has a generation strictly greater than that of every identifier returned
\* before for the same kind and slot; so no identifier is returned twice.
C1_GenerationMonotonic ==
    [][(last'.op = "create" /\ last'.err = "none") =>
         \A h \in handles :
            (h.kind = last'.id.kind /\ h.slot = last'.id.slot) => h.gen < last'.id.gen]_vars

---------------------------------------------------------------------------
(* C2 *)

\* C2 (deletion safety): in every step, a component leaves state only at a
\* moment at which its incoming reference set is empty: everything that
\* referred to it before the step was removed earlier in that same step; and
\* a delete request on a referenced component does not remove it.
C2_DeletionSafety ==
    [][/\ \A x \in Removed :
            \E i \in 1 .. Len(out') :
                /\ out'[i].action = "delete"
                /\ out'[i].id = x
                /\ Get(references, x) \subseteq (DeletedUpTo(out', i - 1) \cap Removed)
       /\ (IsDelete(last') /\ ~no_references(references, last'.id)) =>
              DOMAIN state' = DOMAIN state]_vars

\* a delete call has removed a component and, after it, a deferred one
C2_Witness ==
    /\ IsDelete(last)
    /\ last.err = "none"
    /\ Len(out) = 2
    /\ out[1].id \notin DOMAIN state
    /\ out[2].id \notin DOMAIN state

---------------------------------------------------------------------------
(* C3 *)

\* C3 (deferred delete): a delete of a live component with a non-empty incoming
\* set keeps it in state, broadcasts nothing and adds exactly its id to
\* delete_queue; and when the only referrer y of a queued live component x is
\* removed by a delete call, that call removes y and then x, and x is no longer
\* in delete_queue.
C3_DeferredDelete ==
    [][/\ (IsDelete(last') /\ last'.id \in DOMAIN state /\ Get(references, last'.id) # {}) =>
             /\ last'.id \in DOMAIN state'
             /\ out' = <<>>
             /\ delete_queue' = delete_queue \cup {last'.id}
       /\ \A x \in delete_queue \cap DOMAIN state :
            (/\ IsDelete(last')
             /\ last'.id # x
             /\ Get(references, x) = {last'.id}
             /\ last'.id \in Removed) =>
                /\ x \in Removed
                /\ x \notin delete_queue'
                /\ \E i, j \in 1 .. Len(out') :
                      i < j /\ out'[i].id = last'.id /\ out'[j].id = x]_vars

---------------------------------------------------------------------------
(* C4 *)

\* C4 (eventual deletion): when a successful create or update completes, no
\* live component is left in delete_queue with an empty incoming set.
C4_EventualDeletion ==
    [][(last'.op \in {"create", "update"} /\ last'.err = "none") =>
          Eligible(state', references', delete_queue') = {}]_vars

---------------------------------------------------------------------------
(* C5 *)

RECURSIVE Cascade(_)
\* what the removal of the set R frees: queued live components all of whose
\* referrers are in R, transitively
Cascade(R) ==
    LET more == {q \in (delete_queue \cap DOMAIN state) \ R : Get(references, q) \subseteq R}
    IN  IF more = {} THEN R ELSE Cascade(R \cup more)

\* C5 (cascading drain): when a delete call removes its target x and that
\* frees several deferred entries, directly or transitively, the call
\* returns normally, every freed entry is removed with one delete broadcast of
\* its own, and no entry with an empty incoming set is left in delete_queue.
C5_CascadingDrain ==
    [][(/\ IsDelete(last')
        /\ last'.id \in Removed
        /\ Cardinality(Cascade({last'.id}) \ {last'.id}) >= 2) =>
           /\ last'.err = "none"
           /\ Cascade({last'.id}) \subseteq Removed
           /\ \A q \in Cascade({last'.id}) :
                 Cardinality({i \in 1 .. Len(out') : out'[i].id = q}) = 1
           /\ Eligible(state', references', delete_queue') = {}]_vars

---------------------------------------------------------------------------
(* C6 *)

\* C6 (one delete broadcast per removal): in every step the delete messages
\* broadcast are, one for one, the components removed from state; and a delete
\* of a component that is not in state (by ID or by delegate) broadcasts
\* nothing and changes none of state, client_state, references, delete_queue
\* and the allocator.
C6_OneDeletePerRemoval ==
    [][/\ Cardinality({i \in 1 .. Len(out') : out'[i].action = "delete"}) = Cardinality(Removed)
       /\ DeletedUpTo(out', Len(out')) = Removed
       /\ (IsDelete(last') /\ last'.id \notin DOMAIN state) =>
             /\ out' = <<>>
             /\ UNCHANGED <<state, client_state, references, delete_queue, ids>>]_vars

---------------------------------------------------------------------------
(* C7 *)

\* C7 (identifier uniqueness): at most one live identifier exists per kind and
\* slot, and no identifier the allocator can still return (one on deck, or
\* the next fresh slot) is live or on deck twice -- so no create, after any
\* history of successful and failed calls, returns the identifier of a live
\* component.
C7_IdentifierUniqueness ==
    /\ \A a, b \in DOMAIN state : (a.kind = b.kind /\ a.slot = b.slot) => a = b
    /\ \A k \in Kinds :
         /\ get_id(ids[k], k).id \notin DOMAIN state
         /\ \A i \in 1 .. Len(ids[k].on_deck) :
               /\ ids[k].on_deck[i] \notin DOMAIN state
               /\ \A j \in 1 .. Len(ids[k].on_deck) :
                     ids[k].on_deck[i] = ids[k].on_deck[j] => i = j
         /\ \A x \in DOMAIN state : x.kind = k => x.slot < ids[k].next_slot

\* a create has reused a freed slot while another component of the kind lives
C7_Witness ==
    /\ last.op = "create"
    /\ last.err = "none"
    /\ last.id.slot + 1 < ids[last.id.kind].next_slot
    /\ Cardinality({x \in DOMAIN state : x.kind = last.id.kind}) >= 2

---------------------------------------------------------------------------
(* C8 *)

\* C8 (reference soundness): every identifier embedded in a live component
\* is the identifier of a live component of the kind the field is typed for.
C8_ReferenceSoundness ==
    \A y \in DOMAIN state : \A x \in Range(Embedded(state[y])) : x \in DOMAIN state

---------------------------------------------------------------------------
(* C9 *)

\* C9 (reverse-index exactness): after every operation that completed, for
\* every identifier x and live component y, y is in references[x] exactly when
\* x is embedded in the value of y that was last created or updated.
C9_ReverseIndexExact ==
    last.err = "none" =>
        \A y \in DOMAIN client_state :
            \A x \in DOMAIN references \cup Range(Embedded(client_state[y])) :
                y \in Get(references, x) <=> x \in Range(Embedded(client_state[y]))

---------------------------------------------------------------------------
(* C10 *)

\* C10 (failed create is side-effect free): a create that raises broadcasts
\* nothing and leaves state, client_state, references, delete_queue and the
\* identifier allocator unchanged.
C10_FailedCreateNoEffect ==
    [][(last'.op = "create" /\ last'.err # "none") =>
          /\ out' = <<>>
          /\ UNCHANGED <<state, client_state, references, delete_queue, ids>>]_vars

---------------------------------------------------------------------------
(* C11 *)

\* C11 (minimal update): an update of a component none of whose fields
\* differs from its entry in client_state hands no message to broadcast.
C11_MinimalUpdate ==
    [][(/\ last'.op = "update"
        /\ last'.err = "none"
        /\ find_delta(client_state[last'.id], state'[last'.id]) = {}) => out' = <<>>]_vars

---------------------------------------------------------------------------
(* C12 *)

\* C12 (update delta content): a completed update broadcasts one message, with
\* the update tag of the kind, that carries the id and exactly the fields
\* that differ from client_state, whatever their new value; afterwards the
\* entry of client_state equals the new value.
C12_UpdateDelta ==
    [][(last'.op = "update" /\ last'.err = "none") =>
          /\ Len(out') = 1
          /\ out'[1].tag = message_map("update", last'.id.kind)
          /\ out'[1].id = last'.id
          /\ out'[1].fields = find_delta(client_state[last'.id], state'[last'.id])
          /\ client_state'[last'.id] = state'[last'.id]]_vars

---------------------------------------------------------------------------
(* C13 *)

\* C13 (replica consistency): after every step, for every connected client
\* that has received its introduction frame, replaying the create and delete
\* messages sent to it (the introduction frame, then the broadcasts) yields
\* exactly the keys of Server.state.
C13_ReplicaConsistency ==
    \A c \in Conns :
        (pc[c] = "loop" /\ seen[c].intros >= 1) => seen[c].replica = DOMAIN state

\* a client past its introduction has received the two delete messages of a
\* delete call that also removed a deferred component
C13_Witness ==
    \E c \in Conns :
        /\ pc[c] = "loop"
        /\ seen[c].intros >= 1
        /\ IsDelete(last)
        /\ Len(out) = 2
        /\ Len(wire[c]) = 2
        /\ Cardinality(DOMAIN state) >= 1

---------------------------------------------------------------------------
(* C14 *)

\* live components that the live component y embeds
LiveRefs(y) == Range(Embedded(state[y])) \cap DOMAIN state

RECURSIVE ReachFrom(_, _)
ReachFrom(S, n) ==
    IF n = 0 THEN S ELSE ReachFrom(S \cup UNION {LiveRefs(y) : y \in S}, n - 1)

\* no live component reaches itself along embedded identifiers
Acyclic ==
    \A y \in DOMAIN state : y \notin ReachFrom(LiveRefs(y), Cardinality(DOMAIN state))

\* C14 (topological introduction): when the reference graph is acyclic, in
\* every introduction frame the server can build the create message of a live
\* component a comes before that of every live component b that embeds a.
C14_TopologicalIntro ==
    Acyclic =>
        \A f \in IntroFrames :
            /\ f.err = "none"
            /\ \A i, j \in 1 .. Len(f.msgs) :
                  (/\ f.msgs[i].action = "create"
                   /\ f.msgs[j].action = "create"
                   /\ f.msgs[i].id \in LiveRefs(f.msgs[j].id)) => i < j

---------------------------------------------------------------------------
(* C15 *)

\* the messages are: one create per live component with the create tag of its
\* kind, then the Document update (tag 31) listing the live Method and Signal
\* ids, then `initialized` (tag 35) with empty contents
IntroShape(msgs) ==
    LET n == Cardinality(DOMAIN state)
        live(k) == {x \in DOMAIN state : x.kind = k}
    IN  /\ Len(msgs) = n + 2
        /\ \A i \in 1 .. n :
              /\ msgs[i].action = "create"
              /\ msgs[i].tag = message_map("create", msgs[i].id.kind)
        /\ {msgs[i].id : i \in 1 .. n} = DOMAIN state
        /\ msgs[n + 1].tag = 31
        /\ Range(msgs[n + 1].methods_list) = live("Method")
        /\ Len(msgs[n + 1].methods_list) = Cardinality(live("Method"))
        /\ Range(msgs[n + 1].signals_list) = live("Signal")
        /\ Len(msgs[n + 1].signals_list) = Cardinality(live("Signal"))
        /\ msgs[n + 2].tag = 35
        /\ msgs[n + 2].fields = {}

\* C15 (introduction frame structure): when a client's intro message is
\* handled, the engine state is left unchanged and the client is sent one
\* frame: exactly one create message per live component (queued ones
\* included), then one Document update (tag 31) whose methods_list and
\* signals_list are the live Method and Signal ids, then one `initialized`
\* message (tag 35, empty contents) as the last element.
C15_IntroFrame ==
    [][\A c \in Conns :
          (pc[c] = "intro" /\ last'.op = "intro" /\ pc'[c] # pc[c]) =>
              /\ pc'[c] = "loop"
              /\ UNCHANGED <<state, client_state, ids, references, delete_queue, order>>
              /\ Len(wire'[c]) = 1
              /\ wire'[c][1].kind = "intro"
              /\ IntroShape(wire'[c][1].msgs)]_vars

\* an introduction frame was sent while a live component waits in
\* delete_queue and a Method is live
C15_Witness ==
    /\ last.op = "intro"
    /\ \E c \in Conns : Len(wire[c]) = 1 /\ wire[c][1].kind = "intro"
    /\ delete_queue \cap DOMAIN state # {}
    /\ \E x \in DOMAIN state : x.kind = "Method"

---------------------------------------------------------------------------
(* C16 *)

\* C16 (introduction before broadcasts): a websocket is in Server.clients only
\* after its client-intro message was received; the introduction frame is the
\* first frame a connection gets and it gets it once, so no broadcast reaches
\* a connection before its introduction frame.
C16_IntroBeforeBroadcasts ==
    /\ \A c \in clients : pc[c] # "intro"
    /\ \A c \in Conns :
          /\ seen[c].first \in {"none", "intro"}
          /\ seen[c].intros <= 1

---------------------------------------------------------------------------
(* C17 *)

\* C17 (teardown): a connection whose handler has ended, by a clean close or
\* by a failure in the handshake or in the steady state, is not in
\* Server.clients.
C17_Teardown ==
    \A c \in Conns : pc[c] \in {"done", "raised"} => c \notin clients

---------------------------------------------------------------------------
(* C18 *)

IsReply(f) == f.kind = "reply"

\* C18 (reply routing and order): a reply frame is written only in the step
\* that handles an invocation and only to the invoking connection; that
\* connection gets it after every broadcast the handler produced, and every
\* other connection gets only those broadcasts.
C18_ReplyRouting ==
    [][\A x \in Conns :
          /\ (\E i \in 1 .. Len(wire'[x]) : IsReply(wire'[x][i])) => inv'.conn = x
          /\ inv'.conn = x =>
                /\ Len(wire'[x]) = Len(out') + 1
                /\ IsReply(wire'[x][Len(out') + 1])
                /\ wire'[x][Len(out') + 1].msgs = inv'.reply
                /\ \A i \in 1 .. Len(out') :
                      wire'[x][i] = Frame("broadcast", <<out'[i]>>)]_vars

\* an invocation on one connection whose handler broadcast a create, while
\* another connection is in its steady state and got that broadcast
C18_Witness ==
    /\ inv.conn # 0
    /\ Len(out) >= 1
    /\ \E x \in Conns :
          /\ x # inv.conn
          /\ pc[x] = "loop"
          /\ Len(wire[x]) = Len(out)

---------------------------------------------------------------------------
(* C19 *)

\* the invocation that the step handled found a live Method whose name is
\* bound to a registered handler
Dispatched ==
    /\ inv'.conn # 0
    /\ inv'.payload = WellFormed
    /\ inv'.method \in DOMAIN state
    /\ attrs[state[inv'.method].name] = "handler"

\* the handler of the invocation was asked to raise
AskedToRaise == inv'.args # <<>> /\ inv'.args[1].do = "raise"

\* C19 (method dispatch): for a well-formed invocation of a live Method with a
\* registered handler that returns, the handler is called exactly once, as
\* handler(server, context, *args), and the reply has tag 34, the invoke_id of
\* the message, the handler's return value as result and no method_exception.
C19_MethodDispatch ==
    [][(Dispatched /\ ~AskedToRaise) =>
          /\ inv'.calls = <<[handler |-> state[inv'.method].name, server |-> TRUE,
                              context |-> inv'.context, args |-> inv'.args]>>
          /\ Len(inv'.reply) = 1
          /\ inv'.reply[1].tag = 34
          /\ inv'.reply[1].invoke_id = inv'.invoke_id
          /\ inv'.reply[1].result = "Method on server called!"
          /\ inv'.reply[1].fields = {"invoke_id", "result"}]_vars

\* a handler was called with a context and an argument
C19_Witness ==
    /\ inv.conn # 0
    /\ Len(inv.calls) = 1
    /\ inv.context = "entity"
    /\ inv.args # <<>>
    /\ Len(inv.reply) = 1
    /\ inv.reply[1].code = 0

---------------------------------------------------------------------------
(* C20 *)

\* C20 (method not found): a well-formed invocation whose method id is not in the
\* registry, or whose Method has no registered handler, is answered with the
\* invoke_id and code -32601; no handler runs and the engine state does not
\* change.
C20_MethodNotFound ==
    [][(inv'.conn # 0 /\ inv'.payload = WellFormed /\ ~Dispatched) =>
          /\ Len(inv'.reply) = 1
          /\ inv'.reply[1].invoke_id = inv'.invoke_id
          /\ inv'.reply[1].code = -32601
          /\ inv'.calls = <<>>
          /\ UNCHANGED <<state, client_state, ids, references, delete_queue, order>>]_vars

---------------------------------------------------------------------------
(* C21 *)

\* C21 (parse error): an invocation payload that lacks method, invoke_id or
\* args, or cannot be parsed into (method id, invoke_id, context, argument
\* list) for another reason, is answered with code -32700 "Parse Error"; no
\* handler runs; when the invoke_id could not be read the reply carries the
\* placeholder "-1".
C21_ParseError ==
    [][(inv'.conn # 0 /\ inv'.payload # WellFormed) =>
          /\ Len(inv'.reply) = 1
          /\ inv'.reply[1].code = -32700
          /\ inv'.reply[1].message = "Parse Error"
          /\ inv'.calls = <<>>
          /\ ~(inv'.payload.is_dict /\ inv'.payload.invoke_id) =>
                inv'.reply[1].invoke_id = "-1"]_vars

---------------------------------------------------------------------------
(* C22 *)

\* the handler of the invocation that the step handled raised the exception
\* it was asked to raise
HandlerRaised == Dispatched /\ AskedToRaise

\* C22 (method-exception fidelity): when a handler raises
\* MethodException(c, m, d), the reply has tag 34, the invoke_id of the
\* invocation, no result, and a method_exception that is exactly
\* {code: c, message: m, data: d}.
C22_MethodExceptionFidelity ==
    [][(HandlerRaised /\ inv'.args[1].exc.type = "MethodException") =>
          /\ Len(inv'.reply) = 1
          /\ inv'.reply[1].tag = 34
          /\ inv'.reply[1].invoke_id = inv'.invoke_id
          /\ inv'.reply[1].fields = {"invoke_id", "method_exception"}
          /\ inv'.reply[1].result = "None"
          /\ inv'.reply[1].code = inv'.args[1].exc.code
          /\ inv'.reply[1].message = inv'.args[1].exc.message
          /\ inv'.reply[1].data = inv'.args[1].exc.data]_vars

\* a handler raised a MethodException with a code, a message and data of its
\* own, and the reply was sent
C22_Witness ==
    /\ inv.conn # 0
    /\ Len(inv.calls) = 1
    /\ inv.raised = MethodException(-32602, "Invalid Parameters", "x out of range")
    /\ Len(inv.reply) = 1
    /\ Len(wire[inv.conn]) = 1

---------------------------------------------------------------------------
(* C23 *)

\* C23 (internal-error opacity): when a handler raises an exception that is
\* no MethodException, the reply carries code -32603, message "Internal
\* Error" and no data, whatever the type and the text of the exception: the
\* reply depends on the invoke_id alone.
C23_InternalErrorOpacity ==
    [][(HandlerRaised /\ inv'.args[1].exc.type # "MethodException") =>
          /\ Len(inv'.reply) = 1
          /\ inv'.reply[1].invoke_id = inv'.invoke_id
          /\ inv'.reply[1].fields = {"invoke_id", "method_exception"}
          /\ inv'.reply[1].result = "None"
          /\ inv'.reply[1].code = -32603
          /\ inv'.reply[1].message = "Internal Error"
          /\ inv'.reply[1].data = "None"]_vars

\* a handler raised a RuntimeError that carries a text, and the reply was sent
C23_Witness ==
    /\ inv.conn # 0
    /\ Len(inv.calls) = 1
    /\ inv.raised = OtherException("RuntimeError", "secret")
    /\ Len(inv.reply) = 1
    /\ Len(wire[inv.conn]) = 1

---------------------------------------------------------------------------
(* C24 *)

\* C24 (dispatch never crashes): whatever frame arrives on a connection in
\* its steady state, and whatever the handler does, the connection stays in
\* its receive loop and gets a reply; a dispatch that failed is answered with
\* a reply that carries a method_exception.
C24_DispatchNeverCrashes ==
    [][\A c \in Conns :
          inv'.arrived = c =>
             /\ pc'[c] = "loop"
             /\ Len(inv'.reply) = 1
             /\ Len(wire'[c]) >= 1
             /\ wire'[c][Len(wire'[c])] = Frame("reply", inv'.reply)
             /\ (inv'.frame # "indexable" \/ inv'.raised # NoException) =>
                   "method_exception" \in inv'.reply[1].fields]_vars

---------------------------------------------------------------------------
(* C25 *)

\* C25 (steady-state filtering): a frame that is not [1, payload] is ignored:
\* no handler runs, no reply is sent and the engine state does not change.
C25_SteadyStateFiltering ==
    [][\A c \in Conns :
          (inv'.arrived = c /\ ~(inv'.frame = "indexable" /\ inv'.tag = 1)) =>
             /\ inv'.calls = <<>>
             /\ inv'.reply = <<>>
             /\ \A i \in 1 .. Len(wire'[c]) : ~IsReply(wire'[c][i])
             /\ UNCHANGED <<state, client_state, ids, references, delete_queue, order>>]_vars

---------------------------------------------------------------------------
(* C26 *)

RECURSIVE Flatten(_)
\* the messages of a sequence of frames, in the order they are written
Flatten(frames) == IF frames = <<>> THEN <<>> ELSE Head(frames).msgs \o Flatten(Tail(frames))

RECURSIVE RefersEarly(_, _, _)
\* some message of msgs embeds an identifier that the stream so far (known,
\* then the messages before it) has not created, or has deleted since
RefersEarly(known, msgs, st) ==
    IF msgs = <<>> THEN FALSE
    ELSE \/ ~(embeds(Head(msgs), st) \subseteq known)
         \/ RefersEarly(replay(known, <<Head(msgs)>>), Tail(msgs), st)

\* C26 (referent-first broadcast order): in the stream of messages written to
\* a connection, a create or update message that embeds an identifier x comes
\* after the create message of x and not after a delete message of x.
C26_ReferentFirst ==
    [][\A c \in Conns : ~RefersEarly(seen[c].known, Flatten(wire'[c]), state')]_vars

---------------------------------------------------------------------------
(* C27 *)

\* C27 (update of a non-updatable kind): update_component of a component
\* whose kind has no update tag (Method) fails with an error to the caller
\* and broadcasts nothing; update_component of an Entity or a Light is
\* accepted: unless a registry lookup raised KeyError it returns without
\* error and broadcasts one message with the update tag of the kind.
C27_UpdatableKinds ==
    [][last'.op = "update" =>
          /\ last'.id.kind = "Method" => (last'.err # "none" /\ out' = <<>>)
          /\ (last'.id.kind \in {"Entity", "Light"} /\ last'.err # "KeyError") =>
                /\ last'.err = "none"
                /\ Len(out') = 1
                /\ out'[1].action = "update"
                /\ out'[1].tag = (IF last'.id.kind = "Entity" THEN 5 ELSE 24)]_vars

\* update_component of a live Method, renamed by server code, raised
\* ValueError
C27_Witness ==
    /\ last.op = "update"
    /\ last.id.kind = "Method"
    /\ last.id \in DOMAIN state
    /\ last.err = "ValueError"
    /\ state[last.id].name = "state"

---------------------------------------------------------------------------
(* C28 *)

\* C28 (validation on update): update_component of a component whose current
\* field values violate its validation rule (a Light with no or two light
\* types set) fails with an error, changes nothing of the engine's
\* bookkeeping and broadcasts nothing.
C28_ValidationOnUpdate ==
    [][(last'.op = "update" /\ last'.id \in DOMAIN state' /\ ~ValidAttrs(state'[last'.id])) =>
          /\ last'.err # "none"
          /\ out' = <<>>
          /\ UNCHANGED <<client_state, references, ids, delete_queue>>]_vars

---------------------------------------------------------------------------
(* C29 *)

\* the number of alternative fields of the delegate that are not None
Alternatives(a) ==
    IF a.kind = "Plot" THEN B2N(a.simple_plot # "None") + B2N(a.url_plot # "None")
    ELSE IF a.kind = "Buffer" THEN B2N(a.inline_bytes # "None") + B2N(a.uri_bytes # "None")
    ELSE IF a.kind = "Image" THEN B2N(a.buffer_source # None) + B2N(a.uri_source # "None")
    ELSE B2N(a.point) + B2N(a.spot) + B2N(a.directional)

\* C29 (one-of validation): the construction of a Plot, a Buffer, an Image or
\* a Light succeeds if and only if exactly one of its alternative fields is
\* set, that is, not None.
C29_OneOfValidation ==
    [][(last'.op = "create" /\ last'.given.kind \in OneOfKinds \cup {"Light"}) =>
          (last'.err = "none" <=> Alternatives(last'.given) = 1)]_vars

---------------------------------------------------------------------------
(* C30 *)

\* C30 (override confinement): with an override registered for Entity,
\* create_component returns (and stores) an instance of the override, and
\* every create and update message carries only fields of the base kind's
\* public schema, never a field the override added, even when that field
\* changed.
C30_OverrideConfinement ==
    [][/\ (last'.op = "create" /\ last'.err = "none" /\ last'.id.kind = "Entity") =>
             "position" \in DOMAIN state'[last'.id]
       /\ \A i \in 1 .. Len(out') :
             out'[i].action \in {"create", "update"} =>
                out'[i].fields \subseteq base_fields(out'[i].id.kind)]_vars

---------------------------------------------------------------------------
(* Snapshots, threads, slots and cascades *)

\* C31: a step in which server code only edits a delegate it holds, by
\* assignment or in place and without calling update, emits no frame and
\* leaves client_state as it was
C31_SnapshotIsolation ==
    [][last'.op = "edit" => (out' = <<>> /\ client_state' = client_state)]_vars

\* C34: delete_component(x, recursive=True) that succeeds on a live x nothing
\* references removes x and every component x referenced
C34_RecursiveDelete ==
    [][(/\ last'.op = "delete_recursive"
        /\ last'.err = "none"
        /\ last'.id \in DOMAIN state
        /\ Get(references, last'.id) = {})
       => /\ last'.id \notin DOMAIN state'
          /\ \A i \in 1 .. Len(Embedded(state[last'.id])) :
                Embedded(state[last'.id])[i] \notin DOMAIN state']_vars

\* C32: the calls of the two threads are serialized: a thread that is inside
\* create_component holds an identifier no other thread inside
\* create_component holds and no live component has
C32_EmbedderSerialization ==
    \A t \in Threads :
        threads[t].pc # "idle" =>
            /\ threads[t].id \notin DOMAIN state
            /\ \A u \in Threads \ {t} :
                  threads[u].pc # "idle" => threads[u].id # threads[t].id


\* C33: create_component of kind K takes the identifier at the head of K's
\* on_deck queue whenever the queue is not empty and leaves next_slot alone;
\* only with an empty queue it takes the fresh slot next_slot with generation
\* 0 and increments next_slot; the trackers of the other kinds do not change
C33_SlotReuse ==
    [][last'.op = "create" =>
          LET k == last'.id.kind IN
          /\ IF ids[k].on_deck # <<>>
             THEN /\ last'.id = Head(ids[k].on_deck)
                  /\ ids'[k].on_deck = Tail(ids[k].on_deck)
                  /\ ids'[k].next_slot = ids[k].next_slot
             ELSE /\ last'.id = MkID(k, ids[k].next_slot, 0)
                  /\ ids'[k].next_slot = ids[k].next_slot + 1
                  /\ ids'[k].on_deck = <<>>
          /\ \A j \in DOMAIN ids \ {k} : ids'[j] = ids[j]]_vars

\* a create that succeeded with a freed slot while a higher slot had been
\* handed out
C33_Witness ==
    /\ last.op = "create"
    /\ last.err = "none"
    /\ last.id.slot + 1 < ids[last.id.kind].next_slot


\* the live components a reference path leads to from the live component y
Reaches(y) == ReachFrom(LiveRefs(y), Cardinality(DOMAIN state))

\* the position of the key x in the insertion order of state
Position(x) == CHOOSE i \in 1 .. Len(order) : order[i] = x

\* C35: in every introduction frame the server can build, the create
\* messages of two live components with no reference path from one to the
\* other come in the order in which the components were inserted in state
C35_IntroTieBreak ==
    \A f \in IntroFrames :
        f.err = "none" =>
            \A i, j \in 1 .. Len(f.msgs) :
                (/\ f.msgs[i].action = "create"
                 /\ f.msgs[j].action = "create"
                 /\ f.msgs[i].id \notin Reaches(f.msgs[j].id)
                 /\ f.msgs[j].id \notin Reaches(f.msgs[i].id)
                 /\ Position(f.msgs[i].id) < Position(f.msgs[j].id)) => i < j


\* the delegate embeds some identifier more than once
Repeats(a) == Cardinality(Range(Embedded(a))) < Len(Embedded(a))

\* C36: update_component of a live component whose previous value or new
\* value embeds the same identifier more than once completes normally, and
\* afterwards the component is in the incoming set of exactly the
\* identifiers its new value embeds
C36_UpdateRepeatedReferences ==
    [][(/\ last'.op = "update"
        /\ last'.id \in DOMAIN client_state
        /\ Repeats(client_state[last'.id]) \/ Repeats(state'[last'.id]))
       => /\ last'.err = "none"
          /\ \A x \in AllIDs :
                last'.id \in Get(references', x)
                    <=> x \in Range(Embedded(state'[last'.id]))]_vars


\* C37: an update_component that fails because the kind of the component
\* has no update message leaves client_state, references and delete_queue as
\* they were and broadcasts nothing
C37_FailedUpdateNoEffect ==
    [][(last'.op = "update" /\ last'.err = "ValueError") =>
          /\ UNCHANGED <<client_state, references, delete_queue>>
          /\ out' = <<>>]_vars


\* C38: in a delete call that removes several components, the delete message
\* of a component comes before the delete message of every other component
\* that the value clients hold of it embeds
C38_CascadeBroadcastOrder ==
    [][(IsDelete(last') /\ Cardinality(Removed) >= 2) =>
          \A i, j \in 1 .. Len(out') :
              (/\ out'[i].action = "delete"
               /\ out'[j].action = "delete"
               /\ out'[i].id # out'[j].id
               /\ out'[i].id \in DOMAIN client_state
               /\ out'[j].id \in Range(Embedded(client_state[out'[i].id]))) => i < j]_vars

\* C39: a well-formed invocation of a live Method for which no handler was
\* registered is answered with code -32601 and runs nothing, whatever the
\* name of the Method, the name of an attribute of the Server included
C39_HandlerTableIsolation ==
    [][(/\ inv'.conn # 0
        /\ inv'.payload = WellFormed
        /\ inv'.method \in DOMAIN state
        /\ attrs[state[inv'.method].name] # "handler")
       => /\ Len(inv'.reply) = 1
          /\ inv'.reply[1].code = -32601
          /\ inv'.calls = <<>>]_vars

\* C40: after every create, update or delete call, those that raised
\* included, every identifier in delete_queue is the identifier of a live
\* component
C40_DeleteQueueWellFormed == delete_queue \subseteq DOMAIN state

====
